---- MODULE Spec2Model ----
(***************************************************************************)
(* Model of gsc_dashboard.py: the CSV analyzer (tab1) and the Excel        *)
(* analyzer (tab2) of the Search Console dashboard.                        *)
(*                                                                         *)
(* A Streamlit script runs top to bottom on every upload and on every      *)
(* widget change, in a fresh namespace.  One action of the model is one    *)
(* such script run; the state is the uploaded file, the widget values and  *)
(* what the last run put on the page.                                      *)
(*                                                                         *)
(* Text is a sequence of one-character strings.  Numbers are fixed point,  *)
(* in thousandths (0.045 is 45, 4.5 is 4500), so the arithmetic is exact.  *)
(* A missing value (NaN) is the record NaN.                                *)
(***************************************************************************)
EXTENDS Integers, Sequences, FiniteSets, TLC

\* Largest number of data rows of an uploaded table.
MaxRows == 2

\* One unit of the fixed-point numbers: 1.0 is E3 thousandths.
E3 == 10 * 10 * 10

(***************************************************************************)
(* Text: str.strip, str.lower, str.replace, str.contains                   *)
(***************************************************************************)
UpperCase ==
    << "A","B","C","D","E","F","G","H","I","J","K","L","M",
       "N","O","P","Q","R","S","T","U","V","W","X","Y","Z" >>

LowerCase ==
    << "a","b","c","d","e","f","g","h","i","j","k","l","m",
       "n","o","p","q","r","s","t","u","v","w","x","y","z" >>

LowerMap == [c \in {UpperCase[i] : i \in 1..26} |->
                LowerCase[CHOOSE i \in 1..26 : UpperCase[i] = c]]

LowerChar(c) == IF c \in DOMAIN LowerMap THEN LowerMap[c] ELSE c

lower(s) == [i \in 1..Len(s) |-> LowerChar(s[i])]

RECURSIVE lstrip(_)
lstrip(s) == IF s # <<>> /\ Head(s) = " " THEN lstrip(Tail(s)) ELSE s

RECURSIVE rstrip(_)
rstrip(s) ==
    IF s # <<>> /\ s[Len(s)] = " " THEN rstrip(SubSeq(s, 1, Len(s) - 1)) ELSE s

strip(s) == rstrip(lstrip(s))

\* s.replace(old, new) for a one-character old and any text new.
RECURSIVE replace(_, _, _)
replace(s, old, new) ==
    IF s = <<>> THEN <<>>
    ELSE (IF Head(s) = old THEN new ELSE <<Head(s)>>) \o replace(Tail(s), old, new)

\* Series.str.contains(needle, case=False) on one value, for a literal needle.
contains(hay, needle) ==
    \E i \in 1..(Len(hay) - Len(needle) + 1) :
        SubSeq(lower(hay), i, i + Len(needle) - 1) = lower(needle)

(***************************************************************************)
(* Column names                                                            *)
(***************************************************************************)
c_query       == << "q","u","e","r","y" >>
c_page        == << "p","a","g","e" >>
c_country     == << "c","o","u","n","t","r","y" >>
c_clicks      == << "c","l","i","c","k","s" >>
c_impressions == << "i","m","p","r","e","s","s","i","o","n","s" >>
c_ctr         == << "c","t","r" >>
c_position    == << "p","o","s","i","t","i","o","n" >>
c_top_queries == << "t","o","p","_","q","u","e","r","i","e","s" >>
c_top_pages   == << "t","o","p","_","p","a","g","e","s" >>
c_top_countries == << "t","o","p","_","c","o","u","n","t","r","i","e","s" >>

\* [col.strip().lower().replace(" ", "_") for col in df.columns]
CanonColumn(col) == replace(lower(strip(col)), " ", << "_" >>)

CanonColumns(cols) == [i \in 1..Len(cols) |-> CanonColumn(cols[i])]

\* df.rename(columns={old: new})
RenameColumn(cols, old, new) ==
    [i \in 1..Len(cols) |-> IF cols[i] = old THEN new ELSE cols[i]]

HasColumn(cols, name) == \E i \in 1..Len(cols) : cols[i] = name

ColumnIndex(cols, name) == CHOOSE i \in 1..Len(cols) : cols[i] = name

(***************************************************************************)
(* Numbers                                                                 *)
(***************************************************************************)
NaN == [nan |-> TRUE, v |-> 0]

Num(n) == [nan |-> FALSE, v |-> n]

Digits == << "0","1","2","3","4","5","6","7","8","9" >>

DigitMap == [c \in {Digits[i] : i \in 1..10} |-> (CHOOSE i \in 1..10 : Digits[i] = c) - 1]

IsDigit(c) == c \in DOMAIN DigitMap

DigitVal(c) == DigitMap[c]

RECURSIVE IntVal(_)
IntVal(s) ==
    IF s = <<>> THEN 0
    ELSE IntVal(SubSeq(s, 1, Len(s) - 1)) * 10 + DigitVal(s[Len(s)])

s_nan == << "n","a","n" >>

\* The reader (read_csv, read_excel) yields NaN for an empty cell, and
\* astype(str) writes NaN as "nan".
astype_str(cell) == IF cell = <<>> THEN s_nan ELSE cell

DotCount(s) == Cardinality({i \in 1..Len(s) : s[i] = "."})

DotIndex(s) == CHOOSE i \in 1..Len(s) : s[i] = "."

\* Text that float() and to_numeric read as a finite number: digits with at
\* most one decimal point and at least one digit.
IsDecimal(s) ==
    /\ \A i \in 1..Len(s) : IsDigit(s[i]) \/ s[i] = "."
    /\ DotCount(s) <= 1
    /\ \E i \in 1..Len(s) : IsDigit(s[i])

\* The value of a decimal text, in thousandths (digits past the third
\* decimal are not represented).
DecimalVal(s) ==
    IF DotCount(s) = 0 THEN IntVal(s) * E3
    ELSE LET d    == DotIndex(s)
             frac == SubSeq(s, d + 1, Len(s)) \o << "0","0","0" >>
         IN  IntVal(SubSeq(s, 1, d - 1)) * E3 + IntVal(SubSeq(frac, 1, 3))

\* Whether float(s) succeeds.
FloatParses(s) == s = s_nan \/ IsDecimal(s)

\* float(s) where it succeeds.
ParseFloat(s) == IF IsDecimal(s) THEN Num(DecimalVal(s)) ELSE NaN

\* pd.to_numeric(s, errors="coerce") on one value.
to_numeric(s) == ParseFloat(s)

\* float64 repr as to_csv writes it: NaN as the empty field, else the integer
\* part, a point and the decimals without trailing zeros ("2000.0", "0.045").
RECURSIVE IntText(_)
IntText(n) ==
    IF n < 10 THEN << Digits[n + 1] >>
    ELSE IntText(n \div 10) \o << Digits[(n % 10) + 1] >>

RECURSIVE TrimZeros(_)
TrimZeros(s) ==
    IF Len(s) > 1 /\ s[Len(s)] = "0" THEN TrimZeros(SubSeq(s, 1, Len(s) - 1)) ELSE s

\* FloatText with the decimals cut off, as an integer format would write it.
FloatTextNoDecimals(x) == IF x.nan THEN <<>> ELSE IntText(x.v \div E3)

FloatText(x) ==
    IF x.nan THEN <<>>
    ELSE LET f == x.v % E3
             frac == << Digits[(f \div 100) + 1], Digits[((f \div 10) % 10) + 1],
                        Digits[(f % 10) + 1] >>
         IN  IntText(x.v \div E3) \o << "." >> \o TrimZeros(frac)

\* Comparisons of a Series value with a literal; NaN compares False.
lt(x, n) == ~x.nan /\ x.v < n * E3
le(x, n) == ~x.nan /\ x.v <= n * E3
gt(x, n) == ~x.nan /\ x.v > n * E3
ge(x, n) == ~x.nan /\ x.v >= n * E3

\* between with both bounds exclusive.
betweenExclusive(x, lo, hi) == gt(x, lo) /\ lt(x, hi)

\* Series.between(lo, hi), inclusive="both".
between(x, lo, hi) == ge(x, lo) /\ le(x, hi)

\* Series * Series, element by element: NaN if either side is NaN.  The
\* product is again in thousandths; it is exact when y is a whole number, as
\* the impressions of the files modelled are.
mul(x, y) ==
    IF x.nan \/ y.nan THEN NaN
    ELSE Num(x.v * (y.v \div E3) + (x.v * (y.v % E3)) \div E3)

\* Series.sum(): NaN is skipped and the empty sum is 0.
RECURSIVE SeriesSum(_)
SeriesSum(s) ==
    IF s = <<>> THEN 0
    ELSE (IF Head(s).nan THEN 0 ELSE Head(s).v) + SeriesSum(Tail(s))

\* Series.max(): NaN is skipped; NaN when no value is known.
SeriesMax(s) ==
    LET known == {s[i].v : i \in {j \in 1..Len(s) : ~s[j].nan}}
    IN  IF known = {} THEN NaN
        ELSE Num(CHOOSE m \in known : \A k \in known : k <= m)

Column(rows, f) == [i \in 1..Len(rows) |-> rows[i][f]]

\* A quotient of two integers, as a fraction in lowest terms.
RECURSIVE GCD(_, _)
GCD(a, b) == IF b = 0 THEN a ELSE GCD(b, a % b)

Fraction(n, d) == LET g == GCD(n, d) IN [n |-> n \div g, d |-> d \div g]

Zero == [n |-> 0, d |-> 1]

\* The plain mean of the known values, in place of the weighted one.
UnweightedAverage(values, weights, total) ==
    LET known == {i \in 1..Len(values) : ~values[i].nan}
    IN  IF total # 0 /\ known # {}
        THEN Fraction(SeriesSum(values), Cardinality(known) * E3)
        ELSE Zero

\* (values * weights).sum() / total if total else 0, as an exact fraction.
WeightedAverage(values, weights, total) ==
    IF total # 0
    THEN Fraction(SeriesSum([i \in 1..Len(values) |-> mul(values[i], weights[i])]), total)
    ELSE Zero

(***************************************************************************)
(* Thresholds of the classification, and the default of the Excel slider   *)
(***************************************************************************)
OppPosLow    == 5
OppPosHigh   == 15
OppCtr       == 5
HighImpr     == 1000
LowCtr       == 1
LowClicks    == 10
HighCtr      == 10
LowRank      == 10
ExcelDefaultMinImpr == 100

(***************************************************************************)
(* Tables                                                                  *)
(*                                                                         *)
(* A frame as the reader returns it is [columns, rows], every cell a       *)
(* text.  After coercion a row is a record of the identifier (a text, the  *)
(* empty text being NaN) and the four numeric fields.                      *)
(***************************************************************************)
Cell(frame, row, name) ==
    IF HasColumn(frame.columns, name)
    THEN row[ColumnIndex(frame.columns, name)]
    ELSE <<>>

\* The first of the names in order that is no column: the key of the
\* KeyError that df[name] raises.
MissingOf(cols, order) == {i \in 1..Len(order) : ~HasColumn(cols, order[i])}

FirstMissing(cols, order) ==
    order[CHOOSE i \in MissingOf(cols, order) : \A j \in MissingOf(cols, order) : i <= j]

NoError == [kind |-> "none", arg |-> <<>>]

Error(kind, arg) == [kind |-> kind, arg |-> arg]

\* int(float("nan")): ValueError, cannot convert float NaN to integer.
IntOfNaN == Error("ValueError", s_nan)

\* dropna(subset=[...], how="all") of tab1: the four numeric fields.
AllNumericAbsent(r) == r.clicks.nan /\ r.impressions.nan /\ r.ctr.nan /\ r.position.nan

\* int(df["impressions"].max())
SliderMax(rows) == SeriesMax(Column(rows, "impressions")).v \div E3

\* The value range of st.slider(label, 0, hi, value): the widget widens the
\* range to hold its default value.
SliderRange(hi, default) == 0..(IF hi >= default THEN hi ELSE default)

\* df[df["impressions"] >= min_impr] if min_impr > 0, then the keyword filter
\* if a keyword is given (na=False: a NaN identifier does not match).
ApplyFilter(rows, min_impr, keyword_filter) ==
    LET AtLeast(r) == ge(r.impressions, min_impr)
        Matches(r) == r.id # <<>> /\ contains(r.id, keyword_filter)
        byImpr     == IF min_impr > 0 THEN SelectSeq(rows, AtLeast) ELSE rows
    IN  IF keyword_filter # <<>> THEN SelectSeq(byImpr, Matches) ELSE byImpr

\* The columns to_csv writes for a coerced table, and its fields as text.
ExportCell(r, name, idname) ==
    CASE name = idname        -> r.id
      [] name = c_clicks      -> FloatText(r.clicks)
      [] name = c_impressions -> FloatText(r.impressions)
      [] name = c_ctr         -> FloatText(r.ctr)
      [] name = c_position    -> FloatText(r.position)
      [] OTHER                -> <<>>

to_csv(cols, rows, idname) ==
    [columns |-> cols,
     rows    |-> [i \in 1..Len(rows) |->
                    [j \in 1..Len(cols) |-> ExportCell(rows[i], cols[j], idname)]]]

NoFrame == [columns |-> <<>>, rows |-> <<>>]

(***************************************************************************)
(* TAB 1: CSV analyzer (lines 27-101)                                      *)
(***************************************************************************)
\* lines 34-35
Tab1Columns(frame) == RenameColumn(CanonColumns(frame.columns), c_top_queries, c_query)

\* lines 37-39: strip "," and to_numeric(errors="coerce")
CsvNumber(cell) == to_numeric(replace(astype_str(cell), ",", <<>>))

\* lines 40-41: strip "%" and "," and to_numeric(errors="coerce")
CsvCtr(cell) ==
    to_numeric(replace(replace(astype_str(cell), "%", <<>>), ",", <<>>))

Tab1CoerceRow(f, row) ==
    [id          |-> Cell(f, row, c_query),
     clicks      |-> CsvNumber(Cell(f, row, c_clicks)),
     impressions |-> CsvNumber(Cell(f, row, c_impressions)),
     ctr         |-> CsvCtr(Cell(f, row, c_ctr)),
     position    |-> CsvNumber(Cell(f, row, c_position))]

\* line 42
Tab1DropNa(rows) == LET Keep(r) == ~AllNumericAbsent(r) IN SelectSeq(rows, Keep)

\* lines 37-42
Tab1Coerce(f) ==
    Tab1DropNa([i \in 1..Len(f.rows) |-> Tab1CoerceRow(f, f.rows[i])])

\* line 73
IsOpportunity(r) ==
    ge(r.position, OppPosLow) /\ le(r.position, OppPosHigh) /\ lt(r.ctr, OppCtr)

\* lines 85-87
IsLowCtrAlert(r)  == gt(r.impressions, HighImpr) /\ lt(r.ctr, LowCtr)
IsSurgeAlert(r)   ==
    gt(r.impressions, HighImpr) /\ lt(r.clicks, LowClicks) /\ lt(r.ctr, LowCtr)
IsBoosterAlert(r) == gt(r.ctr, HighCtr) /\ gt(r.position, LowRank)

\* The filtered table in place of the full one.
Tab1FilteredRows(df, df_filtered) == df_filtered

\* The table the alerts and the opportunities of tab1 are taken from.
Tab1ClassifiedRows(df, df_filtered) == df

Tab1Blank ==
    [ran |-> FALSE, error |-> NoError, shown |-> {}, columns |-> <<>>,
     df |-> <<>>, slider_max |-> 0, df_filtered |-> <<>>,
     total_clicks |-> 0, total_impressions |-> 0,
     avg_ctr |-> Zero, avg_position |-> Zero,
     opportunities |-> <<>>, export |-> NoFrame,
     low_ctr_alerts |-> <<>>, surge_alerts |-> <<>>, booster_alerts |-> <<>>]

\* lines 44-101, on the coerced table
Tab1Report(cols, df, min_impr, keyword_filter) ==
    LET df_filtered       == ApplyFilter(df, min_impr, keyword_filter)
        total_clicks      == SeriesSum(Column(df_filtered, "clicks"))
        total_impressions == SeriesSum(Column(df_filtered, "impressions"))
        base              == Tab1ClassifiedRows(df, df_filtered)
        opportunities     == SelectSeq(base, IsOpportunity)
    IN  [ran |-> TRUE, error |-> NoError,
         shown |-> {"filter", "kpis", "top_queries", "opportunities", "download",
                    "alerts"},
         columns |-> cols, df |-> df, slider_max |-> SliderMax(df),
         df_filtered |-> df_filtered,
         total_clicks |-> total_clicks, total_impressions |-> total_impressions,
         avg_ctr |-> WeightedAverage(Column(df_filtered, "ctr"),
                                     Column(df_filtered, "impressions"),
                                     total_impressions),
         avg_position |-> WeightedAverage(Column(df_filtered, "position"),
                                          Column(df_filtered, "impressions"),
                                          total_impressions),
         opportunities |-> opportunities,
         export |-> to_csv(cols, opportunities, c_query),
         low_ctr_alerts |-> SelectSeq(base, IsLowCtrAlert),
         surge_alerts   |-> SelectSeq(base, IsSurgeAlert),
         booster_alerts |-> SelectSeq(base, IsBoosterAlert)]

Tab1Required == << c_clicks, c_impressions, c_position, c_ctr >>

\* One run of the tab1 block on an uploaded frame.
Tab1(frame, min_impr, keyword_filter) ==
    LET cols == Tab1Columns(frame)
        f    == [columns |-> cols, rows |-> frame.rows]
    IN  IF MissingOf(cols, Tab1Required) # {}
        THEN \* df[col] raises KeyError at line 38 or line 40
             [Tab1Blank EXCEPT !.ran = TRUE, !.shown = {"exception"}, !.columns = cols,
                  !.error = Error("KeyError", FirstMissing(cols, Tab1Required))]
        ELSE LET df == Tab1Coerce(f)
             IN  IF SeriesMax(Column(df, "impressions")).nan
                 THEN \* int(nan) raises ValueError at line 45
                      [Tab1Blank EXCEPT !.ran = TRUE, !.shown = {"exception"},
                           !.columns = cols, !.df = df,
                           !.error = IntOfNaN]
                 ELSE IF keyword_filter # <<>> /\ ~HasColumn(cols, c_query)
                 THEN \* df_filtered["query"] raises KeyError at line 52
                      [Tab1Blank EXCEPT !.ran = TRUE, !.shown = {"filter", "exception"},
                           !.columns = cols, !.df = df, !.slider_max = SliderMax(df),
                           !.error = Error("KeyError", c_query)]
                 ELSE Tab1Report(cols, df, min_impr, keyword_filter)

(***************************************************************************)
(* TAB 2: Excel analyzer (lines 106-245)                                   *)
(***************************************************************************)
\* .astype(str).str.replace(",", ""), the text handed to astype(float)
ExcelNumberText(cell) == replace(astype_str(cell), ",", <<>>)

\* .astype(str).str.replace("%", "").str.replace(",", "")
ExcelCtrText(cell) == replace(replace(astype_str(cell), "%", <<>>), ",", <<>>)

SheetColumnText(name, cell) ==
    IF name = c_ctr THEN ExcelCtrText(cell) ELSE ExcelNumberText(cell)

SheetRequired == << c_clicks, c_impressions, c_position, c_ctr >>

\* Whether coercing column name fails: df[name] raises KeyError when the
\* column is missing, astype(float) raises ValueError on a text that is no
\* number.
ColumnFails(f, name) ==
    \/ ~HasColumn(f.columns, name)
    \/ \E i \in 1..Len(f.rows) :
           ~FloatParses(SheetColumnText(name, Cell(f, f.rows[i], name)))

ColumnError(f, name) ==
    IF ~HasColumn(f.columns, name) THEN Error("KeyError", name)
    ELSE Error("ValueError", name)

FailingColumns(f) == {i \in 1..Len(SheetRequired) : ColumnFails(f, SheetRequired[i])}

\* The exception of the coercion statements, which run column by column.
SheetCoerceError(f) ==
    IF FailingColumns(f) = {} THEN NoError
    ELSE ColumnError(f, SheetRequired[CHOOSE i \in FailingColumns(f) :
                                         \A j \in FailingColumns(f) : i <= j])

SheetCoerceRow(f, row, idname) ==
    [id          |-> Cell(f, row, idname),
     clicks      |-> ParseFloat(ExcelNumberText(Cell(f, row, c_clicks))),
     impressions |-> ParseFloat(ExcelNumberText(Cell(f, row, c_impressions))),
     ctr         |-> ParseFloat(ExcelCtrText(Cell(f, row, c_ctr))),
     position    |-> ParseFloat(ExcelNumberText(Cell(f, row, c_position)))]

\* if df["ctr"].max() <= 1: df["ctr"] *= 100
RescaleCtr(rows) ==
    IF le(SeriesMax(Column(rows, "ctr")), 1)
    THEN [i \in 1..Len(rows) |->
            [rows[i] EXCEPT !.ctr = IF @.nan THEN NaN ELSE Num(@.v * 100)]]
    ELSE rows

\* dropna(subset=[id, "clicks", "impressions", "ctr", "position"], how="all")
SheetDropNa(rows) ==
    LET Keep(r) == ~(r.id = <<>> /\ AllNumericAbsent(r)) IN SelectSeq(rows, Keep)

\* The coercion statements of a sheet (lines 116-133, 213-220, 232-239), where
\* they raise nothing.
SheetCoerce(f, idname) ==
    SheetDropNa(RescaleCtr([i \in 1..Len(f.rows) |-> SheetCoerceRow(f, f.rows[i], idname)]))

SheetColumns(frame, top, idname) == RenameColumn(CanonColumns(frame.columns), top, idname)

\* The exception a sheet's statements raise up to its slider, or NoError.
SheetError(f, idname) ==
    IF SheetCoerceError(f) # NoError THEN SheetCoerceError(f)
    ELSE IF ~HasColumn(f.columns, idname) THEN Error("KeyError", idname)
    ELSE IF SeriesMax(Column(SheetCoerce(f, idname), "impressions")).nan
         THEN IntOfNaN
    ELSE NoError

\* lines 158-160
IsCritical(r) == lt(r.ctr, LowCtr) /\ gt(r.impressions, HighImpr)
IsWarning(r)  == gt(r.impressions, HighImpr) /\ lt(r.clicks, LowClicks)
IsWin(r)      == gt(r.ctr, HighCtr) /\ gt(r.position, LowRank)

\* line 204
IsOpp(r) == between(r.position, OppPosLow, OppPosHigh) /\ lt(r.ctr, OppCtr)

\* The table the alerts and the opportunities of tab2 are taken from.
QueriesClassifiedRows(queries_df, queries_filtered) == queries_df

\* The names the Queries block binds, with the line of the binding.
QueriesBindings ==
    << [name |-> "queries_df", line |-> 114],
       [name |-> "min_impr", line |-> 136],
       [name |-> "keyword_filter", line |-> 137],
       [name |-> "queries_filtered", line |-> 139],
       [name |-> "total_clicks", line |-> 146],
       [name |-> "total_impr", line |-> 147],
       [name |-> "avg_ctr", line |-> 148],
       [name |-> "avg_pos", line |-> 149],
       [name |-> "critical", line |-> 158],
       [name |-> "warnings", line |-> 159],
       [name |-> "wins", line |-> 160],
       [name |-> "insights", line |-> 182],
       [name |-> "opp", line |-> 204] >>

\* locals() when the statement at line is reached, in a run of the script
\* that has executed the Queries block up to there: the names the script
\* bound before, the namespace of a run being fresh.
LocalsAt(line) ==
    {"st", "pd", "np", "io", "tab1", "tab2", "uploaded_file", "excel_file", "all_sheets"}
    \cup {QueriesBindings[i].name :
            i \in {j \in 1..Len(QueriesBindings) : QueriesBindings[j].line < line}}

\* lines 182-191
Insights(critical, warnings, wins, opp) ==
    (IF Len(critical) > 0 THEN << [about |-> "critical", n |-> Len(critical)] >> ELSE <<>>)
    \o (IF Len(warnings) > 0 THEN << [about |-> "warnings", n |-> Len(warnings)] >> ELSE <<>>)
    \o (IF Len(wins) > 0 THEN << [about |-> "wins", n |-> Len(wins)] >> ELSE <<>>)
    \o (IF "opp" \in LocalsAt(190) /\ Len(opp) > 0
        THEN << [about |-> "opp", n |-> Len(opp)] >> ELSE <<>>)

QueriesBlank ==
    [status |-> "not_run", error |-> NoError, shown |-> {}, messages |-> {},
     columns |-> <<>>, df |-> <<>>, slider_max |-> 0, queries_filtered |-> <<>>,
     total_clicks |-> 0, total_impr |-> 0, avg_ctr |-> Zero, avg_pos |-> Zero,
     critical |-> <<>>, warnings |-> <<>>, wins |-> <<>>, insights |-> <<>>,
     opp |-> <<>>, export |-> NoFrame]

\* lines 135-207, on the coerced table
QueriesReport(cols, queries_df, min_impr, keyword_filter) ==
    LET queries_filtered == ApplyFilter(queries_df, min_impr, keyword_filter)
        total_clicks     == SeriesSum(Column(queries_filtered, "clicks"))
        total_impr       == SeriesSum(Column(queries_filtered, "impressions"))
        base             == QueriesClassifiedRows(queries_df, queries_filtered)
        critical         == SelectSeq(base, IsCritical)
        warnings         == SelectSeq(base, IsWarning)
        wins             == SelectSeq(base, IsWin)
        opp              == SelectSeq(base, IsOpp)
        insights         == Insights(critical, warnings, wins, opp)
    IN  [status |-> "ok", error |-> NoError,
         shown |-> {"filter", "kpis", "alerts", "recommendations", "top_queries",
                    "opportunities", "download"},
         messages |-> IF insights = <<>>
                      THEN {[level |-> "info", about |-> "no_issues"]} ELSE {},
         columns |-> cols, df |-> queries_df, slider_max |-> SliderMax(queries_df),
         queries_filtered |-> queries_filtered,
         total_clicks |-> total_clicks, total_impr |-> total_impr,
         avg_ctr |-> WeightedAverage(Column(queries_filtered, "ctr"),
                                     Column(queries_filtered, "impressions"), total_impr),
         avg_pos |-> WeightedAverage(Column(queries_filtered, "position"),
                                     Column(queries_filtered, "impressions"), total_impr),
         critical |-> critical, warnings |-> warnings, wins |-> wins,
         insights |-> insights, opp |-> opp,
         export |-> to_csv(cols, opp, c_query)]

\* lines 114-207: the Queries block on the sheet's frame.
QueriesSection(frame, min_impr, keyword_filter) ==
    LET cols == SheetColumns(frame, c_top_queries, c_query)
        f    == [columns |-> cols, rows |-> frame.rows]
    IN  IF SheetError(f, c_query) # NoError
        THEN [QueriesBlank EXCEPT !.status = "error", !.shown = {"exception"},
                  !.columns = cols, !.error = SheetError(f, c_query),
                  !.df = IF SheetError(f, c_query) = IntOfNaN
                         THEN SheetCoerce(f, c_query) ELSE <<>>]
        ELSE QueriesReport(cols, SheetCoerce(f, c_query), min_impr, keyword_filter)

SheetBlank ==
    [status |-> "not_run", error |-> NoError, shown |-> {}, messages |-> {},
     columns |-> <<>>, df |-> <<>>, slider_max |-> 0, filtered |-> <<>>,
     export |-> NoFrame]

\* lines 210-226 and 229-245: the Pages and the Countries block, which differ
\* in the names only.
SheetSection(frame, top, idname, min_sheet_impr) ==
    LET cols == SheetColumns(frame, top, idname)
        f    == [columns |-> cols, rows |-> frame.rows]
    IN  IF SheetError(f, idname) # NoError
        THEN [SheetBlank EXCEPT !.status = "error", !.shown = {"exception"},
                  !.columns = cols, !.error = SheetError(f, idname),
                  !.df = IF SheetError(f, idname) = IntOfNaN
                         THEN SheetCoerce(f, idname) ELSE <<>>]
        ELSE LET df       == SheetCoerce(f, idname)
                 AtLeast(r) == ge(r.impressions, min_sheet_impr)
                 filtered == SelectSeq(df, AtLeast)
             IN  [status |-> "ok", error |-> NoError,
                  shown |-> {"filter", "total", "top", "download"}, messages |-> {},
                  columns |-> cols, df |-> df, slider_max |-> SliderMax(df),
                  filtered |-> filtered, export |-> to_csv(cols, filtered, idname)]

\* all_sheets.get(name) is not None
HasSheet(all_sheets, name) == name \in DOMAIN all_sheets

\* What a block leaves on the page when its sheet is absent: nothing.
QueriesAbsent == [QueriesBlank EXCEPT !.status = "absent"]
SheetAbsent   == [SheetBlank EXCEPT !.status = "absent"]

Tab2Blank == [ran |-> FALSE, queries |-> QueriesBlank, pages |-> SheetBlank,
              countries |-> SheetBlank]

\* One run of the tab2 block on an uploaded workbook: the three blocks in
\* order, an exception ending the run.
Tab2(all_sheets, w) ==
    LET q == IF HasSheet(all_sheets, "Queries")
             THEN QueriesSection(all_sheets["Queries"], w.excel_min_impr, w.excel_kw_filter)
             ELSE QueriesAbsent
        p == IF q.status = "error" THEN SheetBlank
             ELSE IF HasSheet(all_sheets, "Pages")
             THEN SheetSection(all_sheets["Pages"], c_top_pages, c_page, w.page_min_impr)
             ELSE SheetAbsent
        c == IF q.status = "error" \/ p.status = "error" THEN SheetBlank
             ELSE IF HasSheet(all_sheets, "Countries")
             THEN SheetSection(all_sheets["Countries"], c_top_countries, c_country,
                               w.country_min_impr)
             ELSE SheetAbsent
    IN  [ran |-> TRUE, queries |-> q, pages |-> p, countries |-> c]

(***************************************************************************)
(* Uploaded files                                                          *)
(*                                                                         *)
(* A data row is the five cells identifier, clicks, impressions, ctr and   *)
(* position as the file holds them.                                        *)
(***************************************************************************)
RowPool ==
    << << << "S","E","O" >>, << "5" >>, << "2",",","0","0","0" >>, << "0",".","5","%" >>, << "8" >> >>,
      << << "a","b" >>, << "1",",","2","3","4" >>, << "1","0","0" >>, << "1","2","%" >>, << "1","2",".","5" >> >>,
      << << "S","E","O" >>, << "4","0" >>, << "2",",","0","0","0" >>, << "0",".","0","4","5" >>, << "5" >> >>,
      << << "a","b" >>, << "7" >>, << "a","b","c" >>, << "3" >>, << "1","5" >> >>,
      << <<>>, <<>>, <<>>, <<>>, <<>> >>,
      << << "a","b" >>, <<>>, <<>>, <<>>, <<>> >>,
      << << "S","E","O" >>, << "7" >>, << "0" >>, << "6" >>, << "2","0" >> >>,
      << << "a","b" >>, << "5" >>, << "1","0","0" >>, << "1" >>, << "3" >> >> >>

\* Header texts
H_TQ      == << "T","o","p"," ","q","u","e","r","i","e","s" >>
H_TP      == << "T","o","p"," ","p","a","g","e","s" >>
H_TC      == << "T","o","p"," ","c","o","u","n","t","r","i","e","s" >>
H_CLICKS  == << "C","l","i","c","k","s" >>
H_IMPR    == << "I","m","p","r","e","s","s","i","o","n","s" >>
H_CTR     == << "C","T","R" >>
H_POS     == << "P","o","s","i","t","i","o","n" >>
H_PCLICKS == << " ","c","l","i","c","k","s" >>
H_PIMPR   == << "I","m","p","r","e","s","s","i","o","n","s"," " >>

\* The rows of RowPool at the indices in S, in the order of the pool.
RECURSIVE RowsAt(_)
RowsAt(S) ==
    IF S = {} THEN <<>>
    ELSE LET m == CHOOSE i \in S : \A j \in S : j <= i
         IN  Append(RowsAt(S \ {m}), RowPool[m])

\* The data of the uploaded files: up to MaxRows rows of the pool, no row
\* twice.
Tables == {RowsAt(S) : S \in {T \in SUBSET (1..Len(RowPool)) : Cardinality(T) <= MaxRows}}

\* The header row of a Search Console export, and a hand-made one.
HeaderText(style, entity) ==
    IF style = "export"
    THEN << CASE entity = "Queries" -> H_TQ
              [] entity = "Pages"   -> H_TP
              [] OTHER              -> H_TC,
            H_CLICKS, H_IMPR, H_CTR, H_POS >>
    ELSE << CASE entity = "Queries" -> c_query
              [] entity = "Pages"   -> c_page
              [] OTHER              -> c_country,
            H_PCLICKS, H_PIMPR, c_ctr, H_POS >>

\* The header rows uploaded: a style, and the columns the file has.
HeaderPool ==
    { [style |-> "export", keep |-> << 1, 2, 3, 4, 5 >>],
      [style |-> "plain",  keep |-> << 1, 2, 3, 4, 5 >>],
      [style |-> "export", keep |-> << 1, 2, 4, 5 >>],
      [style |-> "export", keep |-> << 1, 3, 5 >>],
      [style |-> "plain",  keep |-> << 2, 3, 4, 5 >>] }

Frame(hv, entity, rows) ==
    [columns |-> [i \in 1..Len(hv.keep) |-> HeaderText(hv.style, entity)[hv.keep[i]]],
     rows    |-> [r \in 1..Len(rows) |->
                    [i \in 1..Len(hv.keep) |-> rows[r][hv.keep[i]]]]]

SheetNames == {"Queries", "Pages", "Countries"}

\* A workbook: the sheets it has, each with the header of its entity.  The
\* sheets of the workbooks modelled hold the same data rows; no block reads
\* the table of another.
Workbook(present, hv, rows) == [s \in present |-> Frame(hv, s, rows)]

MinImprChoices == {0, 100, 2000}

KeywordChoices == { <<>>, << "s","e" >> }

DefaultWidgets ==
    [csv_min_impr |-> 0, csv_kw_filter |-> <<>>,
     excel_min_impr |-> ExcelDefaultMinImpr, excel_kw_filter |-> <<>>,
     page_min_impr |-> 0, country_min_impr |-> 0]

(***************************************************************************)
(* The session                                                             *)
(*                                                                         *)
(* uploaded_file and excel_file are the two uploaders (<<>> when empty,    *)
(* else the one file), widgets the values of the sliders and text inputs,  *)
(* tab1 and tab2 what the last run of the script put in each tab.  The     *)
(* sessions modelled hold a file in one uploader at a time.                *)
(***************************************************************************)
VARIABLES uploaded_file, excel_file, widgets, tab1, tab2

vars == << uploaded_file, excel_file, widgets, tab1, tab2 >>

Init ==
    /\ uploaded_file = <<>>
    /\ excel_file = <<>>
    /\ widgets = DefaultWidgets
    /\ tab1 = Tab1Blank
    /\ tab2 = Tab2Blank

\* One run of the script on the new files and widget values.
Rerun ==
    /\ tab1' = IF uploaded_file' # <<>>
               THEN Tab1(uploaded_file'[1], widgets'.csv_min_impr, widgets'.csv_kw_filter)
               ELSE Tab1Blank
    /\ tab2' = IF excel_file' # <<>> /\ (uploaded_file' = <<>> \/ tab1'.error = NoError)
               THEN Tab2(excel_file'[1], widgets')
               ELSE Tab2Blank

UploadCsv ==
    /\ uploaded_file = <<>> /\ excel_file = <<>>
    /\ \E hv \in HeaderPool, rows \in Tables :
           uploaded_file' = << Frame(hv, "Queries", rows) >>
    /\ UNCHANGED << excel_file, widgets >>
    /\ Rerun

UploadExcel ==
    /\ uploaded_file = <<>> /\ excel_file = <<>>
    /\ \E present \in SUBSET SheetNames, hv \in HeaderPool, rows \in Tables :
           excel_file' = << Workbook(present, hv, rows) >>
    /\ UNCHANGED << uploaded_file, widgets >>
    /\ Rerun

ChangeCsvFilter ==
    /\ "filter" \in tab1.shown
    /\ \E m \in MinImprChoices \cap SliderRange(tab1.slider_max, 0), k \in KeywordChoices :
           /\ << m, k >> # << widgets.csv_min_impr, widgets.csv_kw_filter >>
           /\ widgets' = [widgets EXCEPT !.csv_min_impr = m, !.csv_kw_filter = k]
    /\ UNCHANGED << uploaded_file, excel_file >>
    /\ Rerun

ChangeExcelFilter ==
    /\ "filter" \in tab2.queries.shown
    /\ \E m \in MinImprChoices \cap SliderRange(tab2.queries.slider_max, ExcelDefaultMinImpr),
          k \in KeywordChoices :
           /\ << m, k >> # << widgets.excel_min_impr, widgets.excel_kw_filter >>
           /\ widgets' = [widgets EXCEPT !.excel_min_impr = m, !.excel_kw_filter = k]
    /\ UNCHANGED << uploaded_file, excel_file >>
    /\ Rerun

ChangePageFilter ==
    /\ "filter" \in tab2.pages.shown
    /\ \E m \in MinImprChoices \cap SliderRange(tab2.pages.slider_max, 0) :
           /\ m # widgets.page_min_impr
           /\ widgets' = [widgets EXCEPT !.page_min_impr = m]
    /\ UNCHANGED << uploaded_file, excel_file >>
    /\ Rerun

ChangeCountryFilter ==
    /\ "filter" \in tab2.countries.shown
    /\ \E m \in MinImprChoices \cap SliderRange(tab2.countries.slider_max, 0) :
           /\ m # widgets.country_min_impr
           /\ widgets' = [widgets EXCEPT !.country_min_impr = m]
    /\ UNCHANGED << uploaded_file, excel_file >>
    /\ Rerun

\* The downloaded opportunities of tab1, uploaded again as the CSV file.
ReuploadCsvExport ==
    /\ "download" \in tab1.shown
    /\ uploaded_file' = << tab1.export >>
    /\ widgets' = DefaultWidgets
    /\ UNCHANGED excel_file
    /\ Rerun

\* The downloaded opportunities of tab2, uploaded again as the Queries sheet
\* of a workbook.
ReuploadExcelExport ==
    /\ "download" \in tab2.queries.shown
    /\ excel_file' = << ("Queries" :> tab2.queries.export) >>
    /\ widgets' = DefaultWidgets
    /\ UNCHANGED uploaded_file
    /\ Rerun

Next ==
    \/ UploadCsv
    \/ UploadExcel
    \/ ChangeCsvFilter
    \/ ChangeExcelFilter
    \/ ChangePageFilter
    \/ ChangeCountryFilter
    \/ ReuploadCsvExport
    \/ ReuploadExcelExport

Spec == Init /\ [][Next]_vars

(***************************************************************************)
(* Properties                                                              *)
(***************************************************************************)
\* The uploaded frames with their canonical columns, and the rows of each
\* before any row is dropped.
Tab1Frame == [columns |-> tab1.columns, rows |-> uploaded_file[1].rows]

Tab1Coerced == [i \in 1..Len(Tab1Frame.rows) |-> Tab1CoerceRow(Tab1Frame, Tab1Frame.rows[i])]

Tab1HasColumns == uploaded_file # <<>> /\ tab1.ran /\ MissingOf(tab1.columns, Tab1Required) = {}

Section(name) ==
    CASE name = "Queries" -> [status |-> tab2.queries.status, df |-> tab2.queries.df,
                              columns |-> tab2.queries.columns,
                              messages |-> tab2.queries.messages,
                              shown |-> tab2.queries.shown, idname |-> c_query]
      [] name = "Pages"   -> [status |-> tab2.pages.status, df |-> tab2.pages.df,
                              columns |-> tab2.pages.columns,
                              messages |-> tab2.pages.messages,
                              shown |-> tab2.pages.shown, idname |-> c_page]
      [] OTHER            -> [status |-> tab2.countries.status, df |-> tab2.countries.df,
                              columns |-> tab2.countries.columns,
                              messages |-> tab2.countries.messages,
                              shown |-> tab2.countries.shown, idname |-> c_country]

SectionFrame(name) == [columns |-> Section(name).columns, rows |-> excel_file[1][name].rows]

SectionCoerced(name) ==
    [i \in 1..Len(SectionFrame(name).rows) |->
        SheetCoerceRow(SectionFrame(name), SectionFrame(name).rows[i], Section(name).idname)]

SectionOk(name) ==
    excel_file # <<>> /\ name \in DOMAIN excel_file[1] /\ Section(name).status = "ok"

\* The ctr column on the percentage scale: all values times 100 when the
\* largest known one is at most 1, unchanged otherwise.
PercentScale(rows) ==
    LET known == {i \in 1..Len(rows) : ~rows[i].ctr.nan}
    IN  IF known # {} /\ \A i \in known : rows[i].ctr.v <= E3
        THEN [i \in 1..Len(rows) |->
                IF i \in known THEN [rows[i] EXCEPT !.ctr = Num(rows[i].ctr.v * 100)]
                ELSE rows[i]]
        ELSE rows

SomeFieldPresent(r) ==
    ~r.clicks.nan \/ ~r.impressions.nan \/ ~r.ctr.nan \/ ~r.position.nan

\* C1: in the CSV variant and in every sheet of the spreadsheet variant, the
\* ctr column read by the aggregation and the classification is on the
\* percentage scale: multiplied by 100 when the largest coerced ctr of the
\* loaded table is at most 1, unchanged otherwise.
C1_CtrOnPercentScale ==
    /\ Tab1HasColumns =>
           Column(tab1.df, "ctr")
             = Column(SelectSeq(PercentScale(Tab1Coerced), SomeFieldPresent), "ctr")
    /\ \A name \in SheetNames :
           SectionOk(name) =>
               \A i \in 1..Len(Section(name).df) :
                   \E j \in 1..Len(SectionCoerced(name)) :
                       Section(name).df[i] = PercentScale(SectionCoerced(name))[j]

\* C2: a CSV whose header lacks required columns ends the run with an error
\* that names the missing columns, and no KPI, top-query, opportunity or alert
\* output is produced.
C2_MissingColumnsError ==
    (uploaded_file # <<>> /\ tab1.ran /\ MissingOf(tab1.columns, Tab1Required) # {}) =>
        /\ tab1.error.kind # "none"
        /\ {tab1.error.arg}
             = {Tab1Required[i] : i \in MissingOf(tab1.columns, Tab1Required)}
        /\ tab1.shown \cap {"kpis", "top_queries", "opportunities", "alerts"} = {}

\* The weighted mean of field f over rows, from its definition: the sum of
\* value times impressions over the rows where both are known, over the sum
\* of the known impressions; 0 when that sum is 0.
RECURSIVE WeightedSum(_, _, _)
WeightedSum(rows, f, I) ==
    IF I = {} THEN 0
    ELSE LET i == CHOOSE k \in I : TRUE
         IN  rows[i][f].v * (rows[i].impressions.v \div E3) + WeightedSum(rows, f, I \ {i})

RECURSIVE ImpressionSum(_, _)
ImpressionSum(rows, I) ==
    IF I = {} THEN 0
    ELSE LET i == CHOOSE k \in I : TRUE
         IN  (rows[i].impressions.v \div E3) + ImpressionSum(rows, I \ {i})

ExpectedAverage(rows, f) ==
    LET weighted == {i \in 1..Len(rows) : ~rows[i].impressions.nan}
        both     == {i \in weighted : ~rows[i][f].nan}
        total    == ImpressionSum(rows, weighted)
    IN  IF total = 0 THEN Zero
        ELSE Fraction(WeightedSum(rows, f, both), total * E3)

\* C3: the displayed average CTR and average position of the filtered rows
\* are the impression-weighted means, and are 0 when the total impressions of
\* the filtered rows are 0.
C3_WeightedAverages ==
    /\ "kpis" \in tab1.shown =>
           /\ tab1.avg_ctr = ExpectedAverage(tab1.df_filtered, "ctr")
           /\ tab1.avg_position = ExpectedAverage(tab1.df_filtered, "position")
    /\ "kpis" \in tab2.queries.shown =>
           /\ tab2.queries.avg_ctr = ExpectedAverage(tab2.queries.queries_filtered, "ctr")
           /\ tab2.queries.avg_pos
                = ExpectedAverage(tab2.queries.queries_filtered, "position")

\* Two filtered rows of different impressions, with a nonzero average CTR
\* that is not the CTR of either row.
C3_Witness ==
    /\ "kpis" \in tab1.shown
    /\ Len(tab1.df_filtered) = 2
    /\ ~tab1.df_filtered[1].impressions.nan /\ ~tab1.df_filtered[2].impressions.nan
    /\ tab1.df_filtered[1].impressions # tab1.df_filtered[2].impressions
    /\ tab1.df_filtered[1].ctr # tab1.df_filtered[2].ctr
    /\ tab1.avg_ctr # Zero

\* A required cell that holds a text which is no number.
HasUnparsable(f) ==
    \E i \in 1..Len(f.rows), k \in 1..Len(SheetRequired) :
        /\ HasColumn(f.columns, SheetRequired[k])
        /\ Cell(f, f.rows[i], SheetRequired[k]) # <<>>
        /\ ~FloatParses(SheetColumnText(SheetRequired[k],
                                        Cell(f, f.rows[i], SheetRequired[k])))

\* C4: in both variants a value that cannot be parsed becomes Unknown and
\* the run goes on to aggregation and classification without an error, the
\* row being kept unless all its required fields are Unknown.
C4_UnparsableIsNotAnError ==
    /\ (Tab1HasColumns /\ HasUnparsable(Tab1Frame)) =>
           /\ tab1.error = NoError
           /\ tab1.df = SelectSeq(Tab1Coerced, SomeFieldPresent)
    /\ \A name \in SheetNames :
           ( /\ excel_file # <<>> /\ name \in DOMAIN excel_file[1]
             /\ Section(name).status # "not_run"
             /\ MissingOf(Section(name).columns, SheetRequired) = {}
             /\ HasUnparsable(SectionFrame(name)) )
           => Section(name).status = "ok"

Classified == "alerts" \in tab1.shown \/ "alerts" \in tab2.queries.shown

Buckets ==
    << tab1.opportunities, tab1.low_ctr_alerts, tab1.surge_alerts, tab1.booster_alerts,
       tab2.queries.opp, tab2.queries.critical, tab2.queries.warnings, tab2.queries.wins >>

\* C5: for a fixed uploaded file, a run with other filter values leaves the
\* Opportunity, Critical, Warning and Win row sets as they were.
C5_BucketsIgnoreFilters ==
    [][ ( /\ uploaded_file' = uploaded_file /\ excel_file' = excel_file
          /\ Classified /\ Classified' )
        => Buckets' = Buckets ]_vars

\* A filter that removes an opportunity row from the filtered table.
C5_Witness ==
    /\ "alerts" \in tab1.shown
    /\ widgets.csv_min_impr > 0
    /\ \E i \in 1..Len(tab1.opportunities) :
           \A j \in 1..Len(tab1.df_filtered) : tab1.df_filtered[j] # tab1.opportunities[i]

\* C6: every expected sheet that is absent gets a warning of its own and no
\* output, and every expected sheet that is present is processed.
C6_MissingSheetWarning ==
    (excel_file # <<>> /\ tab2.ran) =>
        \A name \in SheetNames :
            IF name \in DOMAIN excel_file[1]
            THEN Section(name).status \in {"ok", "error"}
            ELSE /\ [level |-> "warning", about |-> name] \in Section(name).messages
                 /\ Section(name).shown = {}

\* C7: the exported opportunities, run through the coercion of the same
\* variant again, come back with identical values.
C7_RoundTrip ==
    [][ /\ ReuploadCsvExport => tab1'.df = tab1.opportunities
        /\ ReuploadExcelExport => tab2'.queries.df = tab2.queries.opp ]_vars

\* C7 as amended: identical in the CSV variant; in the spreadsheet variant
\* identical when the largest exported ctr is above 1, and with every ctr
\* multiplied by 100 again when it is not.
C7_RoundTripUpToRescale ==
    [][ /\ ReuploadCsvExport => tab1'.df = tab1.opportunities
        /\ ReuploadExcelExport => tab2'.queries.df = PercentScale(tab2.queries.opp) ]_vars

\* An exported sheet, uploaded again, whose ctr 0.5 came back as 50.
C7_Witness ==
    /\ excel_file # <<>> /\ "Queries" \in DOMAIN excel_file[1]
    /\ excel_file[1]["Queries"].columns = << c_query, c_clicks, c_impressions, c_ctr, c_position >>
    /\ Len(excel_file[1]["Queries"].rows) = 1
    /\ excel_file[1]["Queries"].rows[1][2] = << "5", ".", "0" >>
    /\ excel_file[1]["Queries"].rows[1][4] = << "0", ".", "5" >>
    /\ Len(tab2.queries.df) = 1
    /\ tab2.queries.df[1].ctr = Num(50 * E3)

\* position known and in [5, 15], ctr known and below 5.
OppTest(r) ==
    /\ ~r.position.nan /\ r.position.v >= 5 * E3 /\ r.position.v <= 15 * E3
    /\ ~r.ctr.nan /\ r.ctr.v < 5 * E3

\* C8: in both variants the Opportunity rows are the rows of the unfiltered
\* table with position known and in [5, 15] and ctr known and below 5, and
\* the predicates of the two variants agree on every row.
C8_OpportunityPredicate ==
    /\ "opportunities" \in tab1.shown =>
           tab1.opportunities = SelectSeq(tab1.df, OppTest)
    /\ "opportunities" \in tab2.queries.shown =>
           tab2.queries.opp = SelectSeq(tab2.queries.df, OppTest)
    /\ \A i \in 1..Len(tab1.df) : IsOpportunity(tab1.df[i]) <=> IsOpp(tab1.df[i])
    /\ \A i \in 1..Len(tab2.queries.df) :
           IsOpportunity(tab2.queries.df[i]) <=> IsOpp(tab2.queries.df[i])

\* An opportunity at the bound 5 or 15 of the position range, in a table
\* that also has a row that is none.
C8_Witness ==
    /\ "opportunities" \in tab2.queries.shown
    /\ \E i \in 1..Len(tab2.queries.opp) :
           tab2.queries.opp[i].position.v \in {5 * E3, 15 * E3}
    /\ Len(tab2.queries.opp) < Len(tab2.queries.df)

\* C9: in every variant a row is dropped exactly when clicks, impressions,
\* ctr and position are all absent, whatever its identifier, and the rows
\* kept are unchanged.
C9_DropsExactlyAllAbsent ==
    /\ Tab1HasColumns => tab1.df = SelectSeq(Tab1Coerced, SomeFieldPresent)
    /\ \A name \in SheetNames :
           SectionOk(name) =>
               Section(name).df
                 = SelectSeq(RescaleCtr(SectionCoerced(name)), SomeFieldPresent)

\* C10: the recommendations read counts computed earlier in the run: the
\* opportunity recommendation is there whenever the table has an Opportunity
\* row, and the no-issues message only when all four buckets are empty.
C10_RecommendationsSeeAllBuckets ==
    "recommendations" \in tab2.queries.shown =>
        /\ Len(tab2.queries.opp) > 0 =>
               \E i \in 1..Len(tab2.queries.insights) :
                   tab2.queries.insights[i] = [about |-> "opp", n |-> Len(tab2.queries.opp)]
        /\ [level |-> "info", about |-> "no_issues"] \in tab2.queries.messages =>
               /\ tab2.queries.critical = <<>> /\ tab2.queries.warnings = <<>>
               /\ tab2.queries.wins = <<>> /\ tab2.queries.opp = <<>>

====
